---- MODULE Spec2Model ----
(***************************************************************************)
(* Model of the Orbiter copilot server: the POST /api/chat handler         *)
(* (routes/chat.ts and its MCP-enabled revision), the in-memory message    *)
(* store (services/messageStore.ts) and the Xano MCP client singleton      *)
(* (services/mcp/xanoMcpClient.ts).                                        *)
(*                                                                         *)
(* Node runs the handlers on one thread: code between two awaits is one    *)
(* atomic action, and handlers of different requests interleave only at    *)
(* awaits that wait for I/O.                                               *)
(***************************************************************************)
EXTENDS Integers, Sequences, FiniteSets, TLC

\* ------------------------------------------------------------------ bounds
MaxFragments == 2

\* the requests in flight; they arrive in this order
\* connect() calls of the session's owner that open a transport
MaxOwnerConnects == 1

\* runTool calls made in a run
MaxToolCalls == 1

\* runTool calls made in a run of tool rounds alone
MaxRoundCalls == 2

Requests == {1, 2}
\* thread ids are opaque: a request names a known thread or the next fresh id
ThreadIds == <<"t1", "t2">>
FreshOrKnown(store) ==
    {ThreadIds[i] : i \in {j \in 1..Len(ThreadIds) : j <= Cardinality(DOMAIN store) + 1}}
\* request body "context": the two special modes and any other value
Contexts == {"leverage-loops", "outcomes", "chat"}
\* what the transform callback can return for a chunk: the content delta, or
\* "" for a chunk without one
Fragments == {"", "a"}
\* what the remote server may answer to listTools
Catalogues ==
    { <<>>, <<"web_search", "create_suggestion_request">> }

NoClient == [absent |-> TRUE]

\* the values of process.env.XANO_MCP_URL: unset, a URL, a string that is none
McpUrls == {"", "https://xano.example/mcp", "xano"}

\* the bearer token of the authorization header, "" when there is none
AuthTokens == {"", "tokA"}

\* req.body.dataSource, "" when absent
DataSources == {"", "live"}

\* ------------------------------------------------------------ program text
MessageStore_SYSTEM_PROMPT == "You are a helpful and friendly AI assistant."
SYSTEM_PROMPT == "You are a concise AI assistant for Orbiter."
LEVERAGE_LOOP_OUTCOME_BASE_PROMPT ==
    "You are a concise AI assistant for Orbiter helping users with leverage loops or outcomes."

tools == <<"web_search", "weather">>

buildLeverageLoopOutcomePrompt(isFirst, copilotMode, userId) ==
    IF isFirst /\ userId
    THEN LEVERAGE_LOOP_OUTCOME_BASE_PROMPT \o " FIRST MESSAGE copilot_mode: " \o copilotMode
    ELSE LEVERAGE_LOOP_OUTCOME_BASE_PROMPT

\* the system prompt the route picks for a new conversation
SystemPromptFor(context, userId) ==
    IF context = "leverage-loops" \/ context = "outcomes"
    THEN buildLeverageLoopOutcomePrompt(
             TRUE, IF context = "leverage-loops" THEN "loop" ELSE "outcome", userId)
    ELSE SYSTEM_PROMPT

\* ------------------------------------------------------------ message store
\* mutant: the copy keeps its id
StripIdKept(m) == m

\* delete message.id on a copy of the message
StripId(m) == [f \in DOMAIN m \ {"id"} |-> m[f]]

GetOpenAICompatibleMessageList(messageList) ==
    [i \in 1..Len(messageList) |-> StripId(messageList[i])]

\* mutant: unshift instead of push
addMessageFront(messageList, message) == <<message>> \o messageList

\* mutant: the message is stored over the last one of the list
addMessageOverLast(messageList, message) ==
    IF messageList = <<>> THEN <<message>>
    ELSE [messageList EXCEPT ![Len(messageList)] = message]

addMessage(messageList, message) == Append(messageList, message)

\* the list a thread is seeded with when its id is first seen
SeedMessageList == << [role |-> "system", content |-> MessageStore_SYSTEM_PROMPT] >>

\* mutant: the list is seeded on every call, without the test for a known id
getMessageStoreReseed(store, id) ==
    [t \in DOMAIN store \cup {id} |->
        IF t = id THEN << [role |-> "system", content |-> MessageStore_SYSTEM_PROMPT] >>
        ELSE store[t]]

\* getMessageStore(id): the store after the call (the handle is the list at id)
getMessageStore(store, id) ==
    IF id \notin DOMAIN store
    THEN [t \in DOMAIN store \cup {id} |-> IF t = id THEN SeedMessageList ELSE store[t]]
    ELSE store

\* mutant: the new-conversation test counts the seeded list as empty
IsFirstMessageSeeded(messageList) == Len(GetOpenAICompatibleMessageList(messageList)) <= 1

\* the route's test for a new conversation
IsFirstMessage(messageList) == Len(GetOpenAICompatibleMessageList(messageList)) = 0

\* ------------------------------------------------------------------ request
ResponseId(r) == "resp" \o ToString(r)
Prompt(r) == [role |-> "user", content |-> "question", id |-> "msg" \o ToString(r)]

\* accumulated.filter((msg) => msg).join("")
RECURSIVE Join(_)
Join(s) == IF s = <<>> THEN "" ELSE Head(s) \o Join(Tail(s))
Truthy(s) == SelectSeq(s, LAMBDA f : f # "")
\* mutant: only the last chunk is stored
AssistantMessageLastChunk(r, accumulated) ==
    [role |-> "assistant",
     content |-> IF accumulated = <<>> THEN "" ELSE accumulated[Len(accumulated)],
     id |-> ResponseId(r)]

AssistantMessage(r, accumulated) ==
    [role |-> "assistant", content |-> Join(Truthy(accumulated)), id |-> ResponseId(r)]

\* let allTools = [...tools, ...mcpTools], less create_suggestion_request
\* when this is not the first message
AllTools(mcpTools, isFirst) ==
    LET all == tools \o mcpTools
    IN  IF ~isFirst
        THEN SelectSeq(all, LAMBDA n : n # "create_suggestion_request")
        ELSE all

\* mutant: the partial accumulation is stored when the stream throws
StoreOnStreamErrorPartial(store, r, id, chunks) ==
    [store EXCEPT ![id] = addMessage(@, AssistantMessage(r, chunks))]

\* transformStream is given an onEnd hook and no onError hook: a stream that
\* throws stores nothing
StoreOnStreamError(store, r, id, chunks) == store

\* mutant: the chunk goes out ahead of what was written before
ResWriteFront(w, chunk) == <<chunk>> \o w

\* res.write(chunk)
ResWrite(w, chunk) == Append(w, chunk)

\* ------------------------------------------------------------ MCP session
\* an absent (undefined) header value; like "", it is falsy
NoValue == ""
\* this.transport before the first connect()
NoTransport == 0

\* setHeaders(authToken, dataSource)
setHeaders(client, authToken, dataSource) ==
    [client EXCEPT !.authToken = authToken, !.dataSource = dataSource]

\* getXanoMcpClient(authToken, dataSource): the singleton after the call
getXanoMcpClient(client, authToken, dataSource) ==
    IF client = NoClient
    THEN [connected |-> FALSE, transport |-> NoTransport, tools |-> <<>>,
          authToken |-> authToken, dataSource |-> dataSource]
    ELSE IF authToken # NoValue \/ dataSource # NoValue
    THEN setHeaders(client, authToken, dataSource)
    ELSE client

\* new URL(mcpUrl) returns; it throws for a string that is no URL
UrlParses(mcpUrl) == mcpUrl = "https://xano.example/mcp"

\* connect()'s first statement: if (this.connected) return
ConnectReturnsEarlyNever(client) == FALSE

ConnectReturnsEarly(client) == client.connected

\* mutant: connected is set as soon as the transport is made
ConnectStartMarksConnected(client, n) ==
    IF ConnectReturnsEarly(client) THEN client
    ELSE [client EXCEPT !.transport = n + 1, !.connected = TRUE]

\* connect() up to its first await: nothing when connected, else a new
\* transport (the n+1st made) is stored in this.transport
ConnectStart(client, n) ==
    IF ConnectReturnsEarly(client) THEN client
    ELSE [client EXCEPT !.transport = n + 1]

\* connect() after listTools answered with the catalogue
ConnectFinish(client, catalogue) ==
    [client EXCEPT !.tools = catalogue, !.connected = TRUE]

\* --------------------------------------------------------------- runTool
\* how this.client.callTool settles: it resolves with a result, or rejects
\* with an Error (transport or application) or with a value that is no Error
Outcomes ==
    { [resolved |-> TRUE, content |-> "rows"],
      [resolved |-> FALSE, isError |-> TRUE, message |-> "transport closed"],
      [resolved |-> FALSE, isError |-> TRUE, message |-> "tool failed"],
      [resolved |-> FALSE, isError |-> FALSE, message |-> ""] }

\* JSON.stringify(value): the JSON text of value
JSONstringify(value) == [json |-> value]

\* error instanceof Error ? error.message : "Unknown error"
errorMessage(outcome) ==
    IF outcome.isError THEN outcome.message ELSE "Unknown error"

\* mutant: the catch block rethrows
runToolRethrows(tool_call_id, name, outcome) ==
    [thrown |-> ~outcome.resolved,
     value |-> [tool_call_id |-> tool_call_id, role |-> "tool",
                content |-> JSONstringify("rows")]]

\* runTool({tool_call_id, name, args}) when callTool settles with outcome:
\* whether it threw, and the value it returned
runTool(tool_call_id, name, outcome) ==
    [thrown |-> FALSE,
     value |-> [tool_call_id |-> tool_call_id,
                role |-> "tool",
                content |-> IF outcome.resolved
                            THEN JSONstringify(outcome.content)
                            ELSE JSONstringify(
                                   [error |-> "Tool call failed: " \o errorMessage(outcome)])]]

\* the values Date.now() takes
Times == {1000, 1001}

\* tool.function.name + Date.now().toString()
ToolCallId(name, now) == name \o ToString(now)

\* the remote entries of a merged tool list
RemoteTools(all) ==
    IF Len(all) > Len(tools) THEN SubSeq(all, Len(tools) + 1, Len(all)) ELSE <<>>

NoCall == [none |-> TRUE]

VARIABLES
    env,            \* process.env: which variables are set
    messagesStore,  \* threadId -> DBMessage[]
    xanoMcpClient,  \* the singleton, or NoClient
    nTransports,    \* StreamableHTTPClientTransport objects created so far
    closed,         \* the transports close() was called on
    everConnected,  \* a connect() of the singleton has completed
    opPc,           \* the session's owner: where its connect()/disconnect() call is
    opConnects,     \* connect() calls of the owner that opened a transport
    opLast,         \* how the owner's last call ended: "done", "failed", or a no-op
    pc,             \* where each request's handler is
    threadId,       \* req.body.threadId of each request, "" before it arrives
    madeThread,     \* the request's getMessageStore call created the thread
    isFirstMessage, \* the handler's local of that name
    mcpError,       \* the handler's catch around ensureXanoMcpConnection ran
    toolCall,       \* the runTool call of the request in flight, or NoCall
    toolResult,     \* the last runTool call that returned: whose it was, what it returned
    nToolCalls,     \* runTool calls made so far
    clientGone,     \* the request's client closed its connection
    catalogueSeen,  \* mcpClient.tools as the handler read it
    allTools,       \* the tool set passed to runTools
    submitted,      \* the messages passed to runTools
    llm,            \* the completion stream: "none", "open", "closed", "errored"
    accumulated,    \* transformStream's accumulated chunks
    queue,          \* chunks enqueued on responseStream, not yet read
    written,        \* chunks written to res
    headersSent,    \* res.headersSent
    resEnd,         \* number of res.end() calls of streamToClient
    status500       \* number of 500 JSON responses sent

vars == << env, messagesStore, xanoMcpClient, nTransports, closed, everConnected,
           opPc, opLast, opConnects, pc, threadId, madeThread, isFirstMessage, mcpError,
           toolCall, toolResult, nToolCalls, clientGone,
           catalogueSeen, allTools, submitted, llm, accumulated, queue, written,
           headersSent, resEnd, status500 >>

reqVars == << threadId, madeThread, isFirstMessage >>
streamVars == << llm, accumulated, queue, written, headersSent, resEnd, status500 >>
mcpVars == << xanoMcpClient, nTransports, closed, everConnected >>
opVars == << opPc, opLast, opConnects >>
toolVars == << toolCall, toolResult, nToolCalls >>

Init ==
    /\ env \in [THESYS_API_KEY : BOOLEAN, XANO_MCP_URL : McpUrls]
    /\ messagesStore = << >>
    /\ xanoMcpClient = NoClient
    /\ nTransports = 0
    /\ closed = {}
    /\ everConnected = FALSE
    /\ opPc = "idle"
    /\ opLast = "none"
    /\ opConnects = 0
    /\ pc = [r \in Requests |-> "idle"]
    /\ threadId = [r \in Requests |-> ""]
    /\ madeThread = [r \in Requests |-> FALSE]
    /\ isFirstMessage = [r \in Requests |-> FALSE]
    /\ mcpError = [r \in Requests |-> FALSE]
    /\ toolCall = [r \in Requests |-> NoCall]
    /\ toolResult = NoCall
    /\ nToolCalls = 0
    /\ clientGone = [r \in Requests |-> FALSE]
    /\ catalogueSeen = [r \in Requests |-> <<>>]
    /\ allTools = [r \in Requests |-> <<>>]
    /\ submitted = [r \in Requests |-> <<>>]
    /\ llm = [r \in Requests |-> "none"]
    /\ accumulated = [r \in Requests |-> <<>>]
    /\ queue = [r \in Requests |-> <<>>]
    /\ written = [r \in Requests |-> <<>>]
    /\ headersSent = [r \in Requests |-> FALSE]
    /\ resEnd = [r \in Requests |-> 0]
    /\ status500 = [r \in Requests |-> 0]

\* ---------------------------------------------------------------- handler
\* the catch block of the older route: a 500 JSON whatever was sent before
CatchAlways500(r) ==
    /\ status500' = [status500 EXCEPT ![r] = @ + 1]
    /\ headersSent' = [headersSent EXCEPT ![r] = TRUE]
    /\ pc' = [pc EXCEPT ![r] = "done"]

\* a catch block that logs and sends nothing
CatchNoResponse(r) ==
    /\ UNCHANGED << status500, headersSent >>
    /\ pc' = [pc EXCEPT ![r] = "done"]

\* the catch block of the route: a 500 JSON unless headers were sent
Catch(r) ==
    /\ status500' = [status500 EXCEPT ![r] = IF headersSent[r] THEN @ ELSE @ + 1]
    /\ headersSent' = [headersSent EXCEPT ![r] = TRUE]
    /\ pc' = [pc EXCEPT ![r] = "done"]

\* from the tool merge to the runTools call, the SSE headers and the start of
\* transformStream's pump; mcpTools is what the remote bridge contributed
RunTools(r, messageList, first, mcpTools) ==
    /\ catalogueSeen' = [catalogueSeen EXCEPT ![r] = mcpTools]
    /\ allTools' = [allTools EXCEPT ![r] = AllTools(mcpTools, first)]
    /\ submitted' = [submitted EXCEPT ![r] =
                        GetOpenAICompatibleMessageList(messageList)]
    /\ llm' = [llm EXCEPT ![r] = "open"]
    /\ pc' = [pc EXCEPT ![r] = "streaming"]

\* the store after the handler's synchronous prefix: getMessageStore, the
\* system prompt of a new conversation, the prompt
StoreAfterPrompt(store, r, id, context, userId) ==
    LET s1 == getMessageStore(store, id)
        s2 == IF IsFirstMessage(s1[id])
              THEN [s1 EXCEPT ![id] = addMessage(@,
                       [role |-> "system", content |-> SystemPromptFor(context, userId)])]
              ELSE s1
    IN  [s2 EXCEPT ![id] = addMessage(@, Prompt(r))]

\* POST /api/chat arrives with body {threadId: id, context, user_id,
\* dataSource} and the bearer token authToken: the handler runs up to its
\* first await on I/O
PostAuthWith(r, id, context, userId, authToken, dataSource) ==
    /\ pc[r] = "idle"
    /\ \A q \in Requests : q < r => pc[q] # "idle"
    /\ threadId' = [threadId EXCEPT ![r] = id]
    /\ UNCHANGED << env, opVars, toolVars, clientGone, closed, everConnected >>
    /\ IF ~env.THESYS_API_KEY
       THEN \* new OpenAI({apiKey: undefined}) throws
            /\ Catch(r)
            /\ UNCHANGED << messagesStore, xanoMcpClient, nTransports, mcpError, madeThread,
                            isFirstMessage, catalogueSeen, allTools, submitted, llm,
                            accumulated, queue, written, resEnd >>
       ELSE LET first == IsFirstMessage(getMessageStore(messagesStore, id)[id])
                store == StoreAfterPrompt(messagesStore, r, id, context, userId)
                client == getXanoMcpClient(xanoMcpClient, authToken, dataSource)
            IN
            /\ messagesStore' = store
            /\ madeThread' = [madeThread EXCEPT ![r] = id \notin DOMAIN messagesStore]
            /\ isFirstMessage' = [isFirstMessage EXCEPT ![r] = first]
            /\ UNCHANGED << accumulated, queue, written, headersSent, resEnd,
                            status500 >>
            /\ IF env.XANO_MCP_URL = ""
               THEN /\ RunTools(r, store[id], first, <<>>)
                    /\ UNCHANGED << xanoMcpClient, nTransports, mcpError >>
               ELSE IF client.connected
               THEN \* ensureXanoMcpConnection returns the connected client
                    /\ RunTools(r, store[id], first, client.tools)
                    /\ xanoMcpClient' = client
                    /\ UNCHANGED << nTransports, mcpError >>
               ELSE IF ~UrlParses(env.XANO_MCP_URL)
               THEN \* connect() throws before a transport is made: the route's
                    \* catch around ensureXanoMcpConnection, mcpTools stays []
                    /\ RunTools(r, store[id], first, <<>>)
                    /\ xanoMcpClient' = client
                    /\ mcpError' = [mcpError EXCEPT ![r] = TRUE]
                    /\ UNCHANGED nTransports
               ELSE \* connect(): a new transport, then await client.connect
                    /\ xanoMcpClient' = ConnectStart(client, nTransports)
                    /\ nTransports' = nTransports + 1
                    /\ pc' = [pc EXCEPT ![r] = "connecting"]
                    /\ UNCHANGED << catalogueSeen, allTools, submitted, llm, mcpError >>

\* a request without bearer token and dataSource
PostWith(r, id, context, userId) ==
    PostAuthWith(r, id, context, userId, NoValue, NoValue)

Post(r) ==
    \E id \in FreshOrKnown(messagesStore), context \in Contexts, userId \in BOOLEAN :
        PostWith(r, id, context, userId)

\* a handler without the catch around ensureXanoMcpConnection: the failure
\* reaches the route's outer catch
McpFailedAborts(r) ==
    /\ Catch(r)
    /\ mcpError' = [mcpError EXCEPT ![r] = TRUE]
    /\ UNCHANGED << env, messagesStore, mcpVars, opVars, toolVars, clientGone, reqVars, catalogueSeen,
                    allTools, submitted, llm, accumulated, queue, written, resEnd >>

\* a handler that, when ensureXanoMcpConnection throws, offers the tools of a
\* catalogue it remembers
McpFailedOffersCatalogue(r) ==
    /\ RunTools(r, messagesStore[threadId[r]], isFirstMessage[r],
                CHOOSE cat \in Catalogues : cat # <<>>)
    /\ mcpError' = [mcpError EXCEPT ![r] = TRUE]
    /\ UNCHANGED << env, messagesStore, mcpVars, opVars, toolVars, clientGone, reqVars,
                    accumulated, queue, written, headersSent, resEnd, status500 >>

\* the route's catch around ensureXanoMcpConnection: mcpTools stays []
McpFailed(r) ==
    /\ RunTools(r, messagesStore[threadId[r]], isFirstMessage[r], <<>>)
    /\ mcpError' = [mcpError EXCEPT ![r] = TRUE]
    /\ UNCHANGED << env, messagesStore, mcpVars, opVars, toolVars, clientGone, reqVars, accumulated, queue,
                    written, headersSent, resEnd, status500 >>

\* await this.client.connect(this.transport) settles
ClientConnect(r) ==
    /\ pc[r] = "connecting"
    /\ \/ /\ pc' = [pc EXCEPT ![r] = "listing"]
          /\ UNCHANGED << env, messagesStore, mcpVars, opVars, toolVars, clientGone, reqVars, mcpError,
                          catalogueSeen, allTools, submitted, streamVars >>
       \/ McpFailed(r)

\* await this.client.listTools() settles
ListTools(r) ==
    /\ pc[r] = "listing"
    /\ \/ \E cat \in Catalogues :
            /\ xanoMcpClient' = ConnectFinish(xanoMcpClient, cat)
            /\ everConnected' = TRUE
            /\ RunTools(r, messagesStore[threadId[r]], isFirstMessage[r], cat)
            /\ UNCHANGED << env, messagesStore, nTransports, closed, opVars, toolVars, clientGone, reqVars,
                            mcpError, accumulated, queue, written, headersSent, resEnd,
                            status500 >>
       \/ McpFailed(r)

\* transformStream's pump takes a chunk from llmStream
Chunk(r) ==
    /\ llm[r] = "open"
    /\ toolCall[r] = NoCall
    /\ Len(accumulated[r]) < MaxFragments
    /\ \E f \in Fragments :
         /\ accumulated' = [accumulated EXCEPT ![r] = Append(@, f)]
         /\ queue' = [queue EXCEPT ![r] = Append(@, f)]
    /\ UNCHANGED << env, messagesStore, mcpVars, opVars, toolVars, clientGone, pc, reqVars, mcpError,
                    catalogueSeen, allTools, submitted, llm, written, headersSent,
                    resEnd, status500 >>

\* llmStream ends: onEnd stores the assistant message, the stream closes
OnEnd(r) ==
    /\ llm[r] = "open"
    /\ toolCall[r] = NoCall
    /\ llm' = [llm EXCEPT ![r] = "closed"]
    /\ messagesStore' = [messagesStore EXCEPT ![threadId[r]] =
                            addMessage(@, AssistantMessage(r, accumulated[r]))]
    /\ UNCHANGED << env, mcpVars, opVars, toolVars, clientGone, pc, reqVars, mcpError, catalogueSeen, allTools,
                    submitted, accumulated, queue, written, headersSent, resEnd,
                    status500 >>

\* llmStream throws: the stream is errored and its queue dropped
StreamError(r) ==
    /\ llm[r] = "open"
    /\ toolCall[r] = NoCall
    /\ llm' = [llm EXCEPT ![r] = "errored"]
    /\ queue' = [queue EXCEPT ![r] = <<>>]
    /\ messagesStore' = StoreOnStreamError(messagesStore, r, threadId[r], accumulated[r])
    /\ UNCHANGED << env, mcpVars, opVars, toolVars, clientGone, pc, reqVars, mcpError, catalogueSeen, allTools,
                    submitted, accumulated, written, headersSent, resEnd, status500 >>

\* a reader that never sees done: it writes chunks and fails on an error,
\* but does not end the response
ReadNeverDone(r) ==
    /\ pc[r] = "streaming"
    /\ UNCHANGED << env, messagesStore, mcpVars, opVars, toolVars, clientGone, reqVars,
                    mcpError, catalogueSeen, allTools, submitted, llm, accumulated >>
    /\ IF queue[r] # <<>>
       THEN /\ written' = [written EXCEPT ![r] = ResWrite(@, Head(queue[r]))]
            /\ queue' = [queue EXCEPT ![r] = Tail(@)]
            /\ headersSent' = [headersSent EXCEPT ![r] = TRUE]
            /\ UNCHANGED << pc, resEnd, status500 >>
       ELSE /\ llm[r] = "errored"
            /\ Catch(r)
            /\ UNCHANGED << queue, written, resEnd >>

\* one turn of streamToClient's loop: await reader.read() settles
Read(r) ==
    /\ pc[r] = "streaming"
    /\ UNCHANGED << env, messagesStore, mcpVars, opVars, toolVars, clientGone, reqVars, mcpError,
                    catalogueSeen, allTools, submitted, llm, accumulated >>
    /\ IF queue[r] # <<>>
       THEN /\ written' = [written EXCEPT ![r] = ResWrite(@, Head(queue[r]))]
            /\ queue' = [queue EXCEPT ![r] = Tail(@)]
            /\ headersSent' = [headersSent EXCEPT ![r] = TRUE]
            /\ UNCHANGED << pc, resEnd, status500 >>
       ELSE IF llm[r] = "closed"
       THEN /\ resEnd' = [resEnd EXCEPT ![r] = @ + 1]
            /\ headersSent' = [headersSent EXCEPT ![r] = TRUE]
            /\ pc' = [pc EXCEPT ![r] = "done"]
            /\ UNCHANGED << queue, written, status500 >>
       ELSE /\ llm[r] = "errored"
            /\ Catch(r)
            /\ UNCHANGED << queue, written, resEnd >>

Next ==
    \E r \in Requests :
        \/ Post(r)
        \/ ClientConnect(r)
        \/ ListTools(r)
        \/ Chunk(r)
        \/ OnEnd(r)
        \/ StreamError(r)
        \/ Read(r)

Spec == Init /\ [][Next]_vars

\* ------------------------------------------------- the session's owner
\* POST /api/chat of the plain chat mode with any combination of bearer token
\* and dataSource
PostAuth(r) ==
    \E id \in FreshOrKnown(messagesStore), authToken \in AuthTokens,
       dataSource \in DataSources :
        PostAuthWith(r, id, "chat", FALSE, authToken, dataSource)

\* the owner calls getXanoMcpClient().connect(); getXanoMcpClient throws when
\* there is no client and XANO_MCP_URL is not set
OpConnect ==
    /\ opPc = "idle"
    /\ xanoMcpClient # NoClient \/ env.XANO_MCP_URL # ""
    /\ LET client == getXanoMcpClient(xanoMcpClient, NoValue, NoValue)
       IN
       IF ConnectReturnsEarly(client)
       THEN /\ opLast' = "connect-noop"
            /\ UNCHANGED << opPc, opConnects, xanoMcpClient, nTransports >>
       ELSE IF ~UrlParses(env.XANO_MCP_URL)
       THEN /\ opLast' = "failed"
            /\ xanoMcpClient' = client
            /\ UNCHANGED << opPc, opConnects, nTransports >>
       ELSE /\ opConnects < MaxOwnerConnects
            /\ opConnects' = opConnects + 1
            /\ xanoMcpClient' = ConnectStart(client, nTransports)
            /\ nTransports' = nTransports + 1
            /\ opPc' = "connecting"
            /\ UNCHANGED opLast
    /\ UNCHANGED << env, messagesStore, closed, everConnected, pc, reqVars, mcpError,
                    toolVars, clientGone, catalogueSeen, allTools, submitted,
                    streamVars >>

\* the owner's await this.client.connect(this.transport) settles
OpClientConnect ==
    /\ opPc = "connecting"
    /\ \/ /\ opPc' = "listing"
          /\ UNCHANGED opLast
       \/ /\ opPc' = "idle"
          /\ opLast' = "failed"
    /\ UNCHANGED << env, messagesStore, mcpVars, opConnects, pc, reqVars, mcpError, toolVars,
                    clientGone, catalogueSeen, allTools, submitted, streamVars >>

\* the owner's await this.client.listTools() settles
OpListTools ==
    /\ opPc = "listing"
    /\ opPc' = "idle"
    /\ \/ \E cat \in Catalogues :
            /\ xanoMcpClient' = ConnectFinish(xanoMcpClient, cat)
            /\ everConnected' = TRUE
            /\ opLast' = "done"
       \/ /\ opLast' = "failed"
          /\ UNCHANGED << xanoMcpClient, everConnected >>
    /\ UNCHANGED << env, messagesStore, nTransports, closed, opConnects, pc, reqVars, mcpError,
                    toolVars, clientGone, catalogueSeen, allTools, submitted,
                    streamVars >>

\* disconnect()'s guard: if (this.transport)
DisconnectCloses(client) == client.transport # NoTransport

\* the owner calls getXanoMcpClient().disconnect(): transport.close() is called
\* when a transport is held
OpDisconnect ==
    /\ opPc = "idle"
    /\ xanoMcpClient # NoClient \/ env.XANO_MCP_URL # ""
    /\ LET client == getXanoMcpClient(xanoMcpClient, NoValue, NoValue)
       IN
       /\ xanoMcpClient' = client
       /\ IF DisconnectCloses(client)
          THEN /\ closed' = closed \cup {client.transport}
               /\ opPc' = "closing"
               /\ UNCHANGED opLast
          ELSE /\ opLast' = "disconnect-noop"
               /\ UNCHANGED << closed, opPc >>
    /\ UNCHANGED << env, messagesStore, nTransports, everConnected, opConnects, pc,
                    reqVars, mcpError, toolVars, clientGone, catalogueSeen, allTools,
                    submitted, streamVars >>

\* await this.transport.close() returns: this.connected = false
OpDisconnectDone ==
    /\ opPc = "closing"
    /\ opPc' = "idle"
    /\ opLast' = "done"
    /\ xanoMcpClient' = [xanoMcpClient EXCEPT !.connected = FALSE]
    /\ UNCHANGED << env, messagesStore, nTransports, closed, everConnected, opConnects, pc,
                    reqVars, mcpError, toolVars, clientGone, catalogueSeen, allTools,
                    submitted, streamVars >>

\* ------------------------------------------------------------ tool rounds
\* the runner calls the function of a remote tool the model named:
\* mcpClient.runTool({tool_call_id: name + Date.now(), name, args})
ToolCallWithin(r, max) ==
    /\ llm[r] = "open"
    /\ toolCall[r] = NoCall
    /\ nToolCalls < max
    /\ \E i \in DOMAIN RemoteTools(allTools[r]), now \in Times :
         LET name == RemoteTools(allTools[r])[i]
         IN  toolCall' = [toolCall EXCEPT ![r] =
                 [tool_call_id |-> ToolCallId(name, now), name |-> name]]
    /\ nToolCalls' = nToolCalls + 1
    /\ UNCHANGED << env, messagesStore, mcpVars, opVars, pc, reqVars, mcpError,
                    toolResult, clientGone, catalogueSeen, allTools, submitted,
                    streamVars >>

ToolCall(r) == ToolCallWithin(r, MaxToolCalls)

\* a runner that merges the tool set again for the next round, from the
\* catalogue the session holds then
ToolReturnRemerges(r) ==
    /\ toolCall[r] # NoCall
    /\ \E outcome \in Outcomes :
         LET result == runTool(toolCall[r].tool_call_id, toolCall[r].name, outcome)
         IN  /\ toolResult' = [request |-> r, call |-> toolCall[r],
                                outcome |-> outcome, result |-> result]
             /\ llm' = [llm EXCEPT ![r] = IF result.thrown THEN "errored" ELSE @]
             /\ queue' = [queue EXCEPT ![r] = IF result.thrown THEN <<>> ELSE @]
    /\ toolCall' = [toolCall EXCEPT ![r] = NoCall]
    /\ allTools' = [allTools EXCEPT ![r] =
                       AllTools(xanoMcpClient.tools, isFirstMessage[r])]
    /\ UNCHANGED << env, messagesStore, mcpVars, opVars, pc, reqVars, mcpError,
                    nToolCalls, clientGone, catalogueSeen, submitted,
                    accumulated, written, headersSent, resEnd, status500 >>

\* this.client.callTool settles and runTool returns; a throw would leave the
\* tool function and fail the runner's stream
ToolReturn(r) ==
    /\ toolCall[r] # NoCall
    /\ \E outcome \in Outcomes :
         LET result == runTool(toolCall[r].tool_call_id, toolCall[r].name, outcome)
         IN  /\ toolResult' = [request |-> r, call |-> toolCall[r],
                                outcome |-> outcome, result |-> result]
             /\ llm' = [llm EXCEPT ![r] = IF result.thrown THEN "errored" ELSE @]
             /\ queue' = [queue EXCEPT ![r] = IF result.thrown THEN <<>> ELSE @]
    /\ toolCall' = [toolCall EXCEPT ![r] = NoCall]
    /\ UNCHANGED << env, messagesStore, mcpVars, opVars, pc, reqVars, mcpError,
                    nToolCalls, clientGone, catalogueSeen, allTools, submitted,
                    accumulated, written, headersSent, resEnd, status500 >>

NextSession ==
    \/ \E r \in Requests :
        \/ PostAuth(r)
        \/ ClientConnect(r)
        \/ ListTools(r)
        \/ ToolCall(r)
        \/ ToolReturn(r)
    \/ OpConnect
    \/ OpClientConnect
    \/ OpListTools
    \/ OpDisconnect
    \/ OpDisconnectDone

\* the session under requests with credentials, their tool calls and an owner
\* that connects and disconnects; the relay of the reply is left to Spec
SpecSession == Init /\ [][NextSession]_vars

\* the runner calls a tool function, the first or a further one of its round
RoundCall(r) == ToolCallWithin(r, MaxRoundCalls)

NextRound ==
    \E r \in Requests :
        \/ Post(r)
        \/ ClientConnect(r)
        \/ ListTools(r)
        \/ RoundCall(r)
        \/ ToolReturn(r)

\* the tool calls of requests without credentials, one after another as the
\* runner makes them; the relay of the reply is left to Spec
SpecRound == Init /\ [][NextRound]_vars

\* ------------------------------------------------------- client disconnect
\* the client of a streaming request closes its connection; the handler has
\* no listener for it
ClientDisconnect(r) ==
    /\ pc[r] = "streaming"
    /\ ~clientGone[r]
    /\ clientGone' = [clientGone EXCEPT ![r] = TRUE]
    /\ UNCHANGED << env, messagesStore, mcpVars, opVars, pc, reqVars, mcpError,
                    toolVars, catalogueSeen, allTools, submitted, streamVars >>

NextCancel ==
    \E r \in Requests :
        \/ Post(r)
        \/ ClientConnect(r)
        \/ ListTools(r)
        \/ Chunk(r)
        \/ OnEnd(r)
        \/ StreamError(r)
        \/ Read(r)
        \/ ClientDisconnect(r)

SpecCancel == Init /\ [][NextCancel]_vars

\* ------------------------------------------------------------- fairness
\* the event loop runs every continuation that is ready: a settled
\* reader.read() of streamToClient is not postponed forever
Fairness == \A r \in Requests : WF_vars(Read(r))

\* the handler under a fair event loop
SpecFair == Spec /\ Fairness


\* ------------------------------------------------------------------ claims
IsPrefix(a, b) == Len(a) <= Len(b) /\ \A i \in 1..Len(a) : a[i] = b[i]
Indices(messageList, P(_)) == {i \in 1..Len(messageList) : P(messageList[i])}
Posted(r) == pc[r] # "idle" /\ env.THESYS_API_KEY
ThreadOf(r) == messagesStore[threadId[r]]
IsReplyOf(r, m) == m.role = "assistant" /\ "id" \in DOMAIN m /\ m.id = ResponseId(r)

C2_OneReplyWithAllFragments ==
    \A r \in Requests :
        Posted(r) =>
            LET replies == Indices(ThreadOf(r), LAMBDA m : IsReplyOf(r, m))
            IN  IF llm[r] = "closed"
                THEN /\ Cardinality(replies) = 1
                     /\ \A i \in replies : ThreadOf(r)[i].content = Join(accumulated[r])
                ELSE replies = {}

\* a stream of two chunks, one of them without content, ended
C2_Witness ==
    \E r \in Requests :
        /\ llm[r] = "closed"
        /\ Len(accumulated[r]) >= 2
        /\ \E i, j \in 1..Len(accumulated[r]) : accumulated[r][i] = "" /\ accumulated[r][j] # ""

\* C3: what was written to the response is a prefix of what the stream
\* produced, in its order; res.end() is called at most once, and only when the
\* stream has ended and every chunk it produced has been written.
C3_WrittenInOrderThenEnded ==
    \A r \in Requests :
        /\ IsPrefix(written[r], accumulated[r])
        /\ resEnd[r] <= 1
        /\ resEnd[r] = 1 => llm[r] = "closed" /\ written[r] = accumulated[r] /\ pc[r] = "done"

\* a response ended after two different chunks were written
C3_Witness ==
    \E r \in Requests :
        /\ resEnd[r] = 1
        /\ Len(written[r]) >= 2
        /\ written[r][1] # written[r][2]

\* C4: a request whose stream threw has no assistant message with its
\* responseId in its thread.
C4_NoReplyAfterError ==
    \A r \in Requests :
        Posted(r) /\ llm[r] = "errored" =>
            Indices(ThreadOf(r), LAMBDA m : IsReplyOf(r, m)) = {}

\* the stream threw after a chunk had been relayed to the client, and the
\* handler has run its catch block
C4_Witness ==
    \E r \in Requests :
        /\ llm[r] = "errored"
        /\ Len(written[r]) >= 1
        /\ written[r][1] # ""
        /\ pc[r] = "done"

\* C5: a request whose stream threw and whose handler has returned got either
\* one 500 response or the end of its streamed response.
C5_FailedRequestIsTerminated ==
    \A r \in Requests :
        pc[r] = "done" /\ llm[r] = "errored" =>
            \/ status500[r] = 1 /\ resEnd[r] = 0
            \/ status500[r] = 0 /\ resEnd[r] = 1

\* C6: every prompt of a request that reached the store and every reply of a
\* request whose stream ended is in its thread exactly once, and the thread
\* holds nothing but its system message and these.
C6_NoLostOrDuplicatedAppend ==
    \A id \in DOMAIN messagesStore :
        LET posted == {r \in Requests : Posted(r) /\ threadId[r] = id}
            replied == {r \in posted : llm[r] = "closed"}
        IN  /\ \A r \in posted :
                 Cardinality(Indices(messagesStore[id], LAMBDA m : m = Prompt(r))) = 1
            /\ \A r \in replied :
                 Cardinality(Indices(messagesStore[id],
                     LAMBDA m : m = AssistantMessage(r, accumulated[r]))) = 1
            /\ Len(messagesStore[id]) = 1 + Cardinality(posted) + Cardinality(replied)

\* two requests on one thread whose appends interleaved: both prompts were
\* stored before either reply, and the later request replied first
C6_Witness ==
    \E id \in DOMAIN messagesStore :
        /\ Len(messagesStore[id]) = 5
        /\ messagesStore[id][2] = Prompt(1)
        /\ messagesStore[id][3] = Prompt(2)
        /\ IsReplyOf(2, messagesStore[id][4])
        /\ IsReplyOf(1, messagesStore[id][5])

\* C7: in every step every thread stays in the store and its list before the
\* step is a prefix of its list after the step.
C7_AppendOnly ==
    [][\A id \in DOMAIN messagesStore :
          /\ id \in DOMAIN messagesStore'
          /\ IsPrefix(messagesStore[id], messagesStore'[id])]_vars

\* a thread that served a request that failed and one that succeeded
C7_Witness ==
    \E r, q \in Requests :
        /\ threadId[r] = threadId[q] /\ Posted(r)
        /\ llm[r] = "errored" /\ pc[r] = "done"
        /\ llm[q] = "closed" /\ pc[q] = "done"
        /\ Len(ThreadOf(r)) = 4

\* C8: the list made for the completion service has the length, order, roles
\* and contents of the stored list and no message of it has an id; the same
\* holds of every list that was submitted.
C8_SubmittedListHasNoIds ==
    /\ \A id \in DOMAIN messagesStore :
          LET stored == messagesStore[id]
              list == GetOpenAICompatibleMessageList(stored)
          IN  /\ Len(list) = Len(stored)
              /\ \A i \in 1..Len(stored) :
                    /\ list[i].role = stored[i].role
                    /\ list[i].content = stored[i].content
                    /\ "id" \notin DOMAIN list[i]
    /\ \A r \in Requests :
          /\ \A i \in 1..Len(submitted[r]) : "id" \notin DOMAIN submitted[r][i]
          /\ llm[r] # "none" =>
                /\ Len(submitted[r]) <= Len(ThreadOf(r))
                /\ \A i \in 1..Len(submitted[r]) :
                      /\ submitted[r][i].role = ThreadOf(r)[i].role
                      /\ submitted[r][i].content = ThreadOf(r)[i].content

\* a request submitted a history holding a prompt and an assistant reply, both
\* stored with an id
C8_Witness ==
    \E r \in Requests :
        /\ llm[r] # "none"
        /\ \E i, j \in 1..Len(submitted[r]) :
              /\ submitted[r][i].role = "assistant" /\ "id" \in DOMAIN ThreadOf(r)[i]
              /\ submitted[r][j].role = "user" /\ "id" \in DOMAIN ThreadOf(r)[j]

\* C9: create_suggestion_request, when the catalogue the handler read has it,
\* is offered to the first request on a thread and to no later request on it.
C9_FirstTurnToolOnFirstRequestOnly ==
    \A r \in Requests :
        llm[r] # "none" /\ (\E i \in 1..Len(catalogueSeen[r]) :
                               catalogueSeen[r][i] = "create_suggestion_request") =>
            (madeThread[r] <=> \E i \in 1..Len(allTools[r]) :
                                  allTools[r][i] = "create_suggestion_request")

\* C10: a request that creates a thread leaves at its head the system prompt
\* of the request's mode.
C10_ModePromptAtHead ==
    [][\A r \in Requests, id \in FreshOrKnown(messagesStore),
         context \in Contexts, userId \in BOOLEAN :
          PostWith(r, id, context, userId) /\ env.THESYS_API_KEY
                /\ id \notin DOMAIN messagesStore =>
              messagesStore'[id][1] =
                  [role |-> "system", content |-> SystemPromptFor(context, userId)]]_vars

\* C11: when ensureXanoMcpConnection throws, the request is not aborted: the
\* remote tool set is empty, the tools offered are exactly the local tools,
\* the completion call is made, and the request ends with a 500 only when
\* the completion stream itself failed.
C11_ConnectFailureDegradesToLocalTools ==
    \A r \in Requests :
        mcpError[r] =>
            /\ pc[r] \in {"streaming", "done"}
            /\ catalogueSeen[r] = <<>>
            /\ allTools[r] = tools
            /\ llm[r] # "none"
            /\ submitted[r] # <<>>
            /\ (status500[r] > 0 => llm[r] = "errored")

C11_Witness ==
    \E r \in Requests :
        /\ mcpError[r]
        /\ pc[r] = "done"
        /\ resEnd[r] = 1
        /\ IsReplyOf(r, messagesStore[threadId[r]][Len(messagesStore[threadId[r]])])

\* C12: no runTool / callTool is attempted on the session unless a connect
\* sequence of the session has completed before, in every interleaving of
\* requests: a call in flight or returned names a tool of a catalogue the
\* request read from a connected session.
C12_InvocationOnlyAfterConnect ==
    /\ \A r \in Requests :
         toolCall[r] # NoCall =>
            /\ everConnected
            /\ \E i \in DOMAIN catalogueSeen[r] : catalogueSeen[r][i] = toolCall[r].name
    /\ toolResult # NoCall => everConnected

C12_Witness ==
    \E r, q \in Requests :
        /\ toolCall[r] # NoCall
        /\ pc[q] \in {"connecting", "listing"}

\* C13: of the ensureXanoMcpConnection calls made while the session is not
\* connected, only one starts a connect sequence: at most one connect is in
\* flight and no second transport is opened while one is.
C13_OneConnectInFlight ==
    Cardinality({r \in Requests : pc[r] \in {"connecting", "listing"}}) <= 1

\* C14: connect() on a connected session is a no-op: no transport is made, no
\* handshake or discovery is started, and connected, the transport and the
\* catalogue stay as they were.
C14_ConnectOnConnectedIsNoOp ==
    [][ ( /\ xanoMcpClient # NoClient
          /\ xanoMcpClient.connected
          /\ OpConnect )
        => ( /\ UNCHANGED << xanoMcpClient, nTransports, closed, everConnected, opPc >>
             /\ opLast' = "connect-noop" ) ]_vars

C14_Witness ==
    /\ opLast = "connect-noop"
    /\ xanoMcpClient # NoClient
    /\ xanoMcpClient.connected
    /\ xanoMcpClient.tools # <<>>

\* C15: when a session exists, ensureXanoMcpConnection(authToken, dataSource)
\* leaves the session's credentials equal to the caller's values for every
\* combination of present and absent values, and does not replace the
\* transport of a connected session.
C15_CredentialsFollowCaller ==
    [][ \A r \in Requests, i \in DOMAIN ThreadIds,
           authToken \in AuthTokens, dataSource \in DataSources :
          ( /\ xanoMcpClient # NoClient
            /\ env.THESYS_API_KEY
            /\ env.XANO_MCP_URL # ""
            /\ PostAuthWith(r, ThreadIds[i], "chat", FALSE, authToken, dataSource) )
          => ( /\ xanoMcpClient'.authToken = authToken
               /\ xanoMcpClient'.dataSource = dataSource
               /\ xanoMcpClient.connected =>
                    /\ xanoMcpClient'.transport = xanoMcpClient.transport
                    /\ nTransports' = nTransports ) ]_vars

\* C16: disconnect() on a connected session closes the transport and leaves
\* the session not connected; disconnect() on a session that is not connected
\* (never connected, or disconnected before) closes no transport and changes
\* no state.
C16_DisconnectClosesOnceThenNoOp ==
    [][ /\ OpDisconnect =>
           LET client == getXanoMcpClient(xanoMcpClient, NoValue, NoValue)
           IN  IF client.connected
               THEN client.transport \in closed' /\ opPc' = "closing"
               ELSE UNCHANGED << closed, opPc, nTransports, everConnected >>
                    /\ xanoMcpClient' = client
        /\ OpDisconnectDone => ~xanoMcpClient'.connected ]_vars

\* C17: runTool never throws: whether callTool resolves or rejects, it returns
\* a message of role "tool" with the tool_call_id it was given; when callTool
\* rejected the content is an error object, otherwise it is the result.
C17_RunToolAlwaysReturnsToolMessage ==
    toolResult # NoCall =>
        /\ ~toolResult.result.thrown
        /\ toolResult.result.value.role = "tool"
        /\ toolResult.result.value.tool_call_id = toolResult.call.tool_call_id
        /\ toolResult.outcome.resolved =>
              toolResult.result.value.content = JSONstringify(toolResult.outcome.content)
        /\ ~toolResult.outcome.resolved =>
              /\ DOMAIN toolResult.result.value.content.json = {"error"}
              /\ toolResult.result.value.content.json.error =
                    "Tool call failed: " \o errorMessage(toolResult.outcome)

C17_Witness ==
    /\ toolResult # NoCall
    /\ ~toolResult.outcome.resolved
    /\ ~toolResult.outcome.isError
    /\ \E r \in Requests : llm[r] = "open" /\ toolCall[r] = NoCall /\ nToolCalls > 0

\* C19: once the client of a streaming request has disconnected, the handler
\* takes no further fragment from the completion stream, writes none, starts
\* no tool call and appends no assistant message of that request.
C19_NothingAfterClientDisconnect ==
    [][ \A r \in Requests :
          clientGone[r] =>
            /\ accumulated'[r] = accumulated[r]
            /\ written'[r] = written[r]
            /\ toolCall'[r] = toolCall[r]
            /\ Indices(messagesStore'[threadId[r]], LAMBDA m : IsReplyOf(r, m))
                 = Indices(messagesStore[threadId[r]], LAMBDA m : IsReplyOf(r, m)) ]_vars

\* C20: once the completion stream of a request has ended with a final turn,
\* the handler eventually ends the response, the assistant message is in the
\* thread, and nothing more is submitted or called for the request. An ended
\* stream stays ended (second conjunct), so "ended leads to response ended"
\* is stated as: from some point on, every request whose stream has ended has
\* ended its response.
C20_FinalTurnEndsTheRequest ==
    /\ <>[](\A r \in Requests :
              llm[r] = "closed" =>
                 /\ pc[r] = "done"
                 /\ resEnd[r] = 1
                 /\ Indices(ThreadOf(r), LAMBDA m : IsReplyOf(r, m)) # {})
    /\ [][ \A r \in Requests :
             llm[r] = "closed" =>
               /\ llm'[r] = "closed"
               /\ submitted'[r] = submitted[r]
               /\ toolCall'[r] = NoCall
               /\ Indices(ThreadOf(r), LAMBDA m : IsReplyOf(r, m)) # {} ]_vars

C20_Witness ==
    \E r \in Requests :
        /\ llm[r] = "closed"
        /\ pc[r] = "done"
        /\ resEnd[r] = 1
        /\ written[r] = accumulated[r]
        /\ Len(accumulated[r]) = MaxFragments

\* C21: once a fragment of the response has been written, no 500 JSON response
\* is written for the request: a 500 is sent at most once and only when no
\* part of the response was sent before it.
C21_No500AfterStreamingBegan ==
    \A r \in Requests :
        /\ status500[r] <= 1
        /\ status500[r] = 1 => written[r] = <<>> /\ resEnd[r] = 0

C21_Witness ==
    \E r \in Requests :
        /\ written[r] # <<>>
        /\ llm[r] = "errored"
        /\ pc[r] = "done"
        /\ status500[r] = 0

\* C22: when THESYS_API_KEY is missing, a request that arrived has failed with
\* exactly one 500 response and nothing of a stream: no completion call, no
\* fragment taken or written, no res.end of the relay.
C22_MissingKeyGivesOne500 ==
    \A r \in Requests :
        (~env.THESYS_API_KEY /\ pc[r] # "idle") =>
            /\ pc[r] = "done"
            /\ status500[r] = 1
            /\ llm[r] = "none"
            /\ submitted[r] = <<>>
            /\ accumulated[r] = <<>>
            /\ written[r] = <<>>
            /\ resEnd[r] = 0

C22_Witness ==
    /\ ~env.THESYS_API_KEY
    /\ \A r \in Requests : pc[r] = "done" /\ status500[r] = 1

\* C23: the tool set of a request is merged once, at the runTools call, from
\* the local tools, the catalogue the session held then and the first-turn
\* flag: it does not change afterwards, whatever happens to the session or the
\* thread, and two requests that read the same catalogue and agree on being
\* the first turn of their thread have the same tool set.
C23_ToolSetFixedPerRequest ==
    /\ [](\A r \in Requests :
            pc[r] \in {"streaming", "done"} /\ llm[r] # "none" =>
                /\ allTools[r] = AllTools(catalogueSeen[r], isFirstMessage[r])
                /\ \A q \in Requests :
                     ( /\ pc[q] \in {"streaming", "done"} /\ llm[q] # "none"
                       /\ catalogueSeen[q] = catalogueSeen[r]
                       /\ madeThread[q] = madeThread[r] )
                     => allTools[q] = allTools[r])
    /\ [][ \A r \in Requests :
             llm[r] # "none" =>
                allTools'[r] = allTools[r] /\ catalogueSeen'[r] = catalogueSeen[r] ]_vars

C23_Witness ==
    \E r \in Requests :
        /\ llm[r] = "open"
        /\ toolResult # NoCall
        /\ catalogueSeen[r] # <<>>
        /\ xanoMcpClient.connected
        /\ xanoMcpClient.tools # catalogueSeen[r]

\* C24: no two tools of a request's merged tool set have the same name,
\* whatever the remote catalogue holds.
C24_ToolNamesUnique ==
    \A r \in Requests :
        \A i, j \in DOMAIN allTools[r] :
            i # j => allTools[r][i] # allTools[r][j]

\* C25: the call ids of the remote tool calls a request makes one after
\* another are distinct, also when the same tool is called again within the
\* same millisecond.
C25_CallIdsDistinct ==
    \A r \in Requests :
        ( /\ toolCall[r] # NoCall
          /\ toolResult # NoCall
          /\ toolResult.request = r )
        => toolCall[r].tool_call_id # toolResult.call.tool_call_id

\* C26: the assistant message that carries a request's responseId stands
\* after that request's prompt in the thread, in every interleaving with the
\* other requests on the thread.
C26_PromptBeforeReply ==
    \A r \in Requests :
        Posted(r) =>
            \A i \in Indices(ThreadOf(r), LAMBDA m : IsReplyOf(r, m)) :
                \E j \in Indices(ThreadOf(r), LAMBDA m : m = Prompt(r)) : j < i

\* the prompt and the reply of one request, the other request's prompt and
\* reply between them
C26_Witness ==
    \E r, q \in Requests :
        /\ r # q
        /\ Posted(r) /\ Posted(q)
        /\ threadId[r] = threadId[q]
        /\ \E i, j, k, l \in DOMAIN ThreadOf(r) :
              /\ i < j /\ j < k /\ k < l
              /\ ThreadOf(r)[i] = Prompt(r)
              /\ ThreadOf(r)[j] = Prompt(q)
              /\ IsReplyOf(q, ThreadOf(r)[k])
              /\ IsReplyOf(r, ThreadOf(r)[l])

\* C27: the list a request submits to runTools ends with the request's own
\* prompt: it is as long as the thread was right after the request's
\* addMessage(prompt), also when the handler awaited the connect in between.
C27_SnapshotEndsWithOwnPrompt ==
    \A r \in Requests :
        llm[r] # "none" =>
            \E i \in Indices(ThreadOf(r), LAMBDA m : m = Prompt(r)) :
                Len(submitted[r]) = i

\* C28: a connect() that fails, at the transport's creation, at the handshake
\* or at the discovery, reaches its caller as an error and leaves connected
\* and the catalogue as they were; so a session on which no discovery ever
\* succeeded is not connected and has no catalogue, and the next
\* ensureXanoMcpConnection on a session that is not connected connects again.
C28_FailedConnectLeavesSession ==
    /\ [](xanoMcpClient # NoClient /\ ~everConnected =>
             ~xanoMcpClient.connected /\ xanoMcpClient.tools = <<>>)
    /\ [][ ( \/ \E r \in Requests : mcpError'[r] /\ ~mcpError[r]
             \/ opLast' = "failed" /\ (OpConnect \/ OpClientConnect \/ OpListTools) )
           => IF xanoMcpClient = NoClient
              THEN ~xanoMcpClient'.connected /\ xanoMcpClient'.tools = <<>>
              ELSE /\ xanoMcpClient'.connected = xanoMcpClient.connected
                   /\ xanoMcpClient'.tools = xanoMcpClient.tools ]_vars
    /\ [][ \A r \in Requests :
             ( /\ pc[r] = "idle" /\ pc'[r] # "idle"
               /\ env.THESYS_API_KEY
               /\ UrlParses(env.XANO_MCP_URL)
               /\ xanoMcpClient # NoClient
               /\ ~xanoMcpClient.connected )
             => pc'[r] = "connecting" /\ nTransports' = nTransports + 1 ]_vars

\* a request whose connect failed at the discovery, and a later request whose
\* connect succeeded
C28_Witness ==
    \E r, q \in Requests :
        /\ r < q
        /\ mcpError[r]
        /\ nTransports = 2
        /\ ~mcpError[q]
        /\ pc[q] = "streaming"
        /\ xanoMcpClient.connected
        /\ catalogueSeen[q] = xanoMcpClient.tools
        /\ catalogueSeen[q] # <<>>

\* C29: no transport is orphaned: every transport that was created is the
\* session's current transport or has been closed, whatever connects,
\* disconnects and reconnects were made.
C29_NoOrphanedTransport ==
    \A t \in 1..nTransports :
        \/ xanoMcpClient # NoClient /\ xanoMcpClient.transport = t
        \/ t \in closed

====
